---- MODULE Spec2Model ----
(***************************************************************************)
(* A model of the engula chaos supervisor: deterministic writers that      *)
(* execute a generated operation stream against a key-value collection,    *)
(* and readers that replay the same stream and reconcile it with what the  *)
(* collection returns.                                                     *)
(***************************************************************************)
EXTENDS Integers, Sequences, FiniteSets, TLC

VARIABLES
    tape,       \* output of SmallRng per seed: tape[seed][n] is the n-th draw
    writer,     \* writer[w]: the Writer objects and the position of their tasks
    reader,     \* reader[r]: the Reader objects and the position of their tasks
    store,      \* the collection: key -> encoded value, DOMAIN = keys present
    signalled,  \* shutdown channels on which () has been sent
    fatal,      \* "none", or the panic that ended the process
    log_round,  \* accessed step of the last "verify one round" log line
    fault,      \* the transient failures injected into the collection
    codec,      \* harness of the value codec: input, encoded and decoded value
    gens        \* harness of the generator: two generators and what they drew

vars == <<tape, writer, reader, store, signalled, fatal, log_round, fault, codec,
          gens>>

----------------------------------------------------------------------------
\* Bounds of the model

\* the writers stop drawing after this many steps
MaxStep == 3
\* the writers stop drawing after this many steps when failures are injected
MaxFaultStep == 2
\* longest payload given to the codec harness
MaxPayload == 2
\* the generators of the generator harness stop drawing after this many draws
MaxDraws == 2

\* AppConfig::default
NumWriters == 1
NumReaders == 1

\* attempts of the retry loops of Writer::run and CoreReader::verify
RetryBudget == 120

\* size_of::<usize>() on the 64-bit targets the client library supports
UsizeBytes == 8

Writers == 0 .. NumWriters - 1
Readers == 0 .. NumReaders - 1

\* base_seed of the configuration
BaseSeeds == {42}
\* generator config: half-open length ranges <<start, end>>
Cfg == [key_range |-> <<1, 2>>, value_range |-> <<1, 2>>]
\* the values rng.fill produces, reduced to two residues modulo 62
RawBytes == {0, 63}

----------------------------------------------------------------------------
\* value.rs

\* usize::to_le_bytes / u64::to_le_bytes
to_le_bytes(n) ==
    [i \in 1 .. UsizeBytes |->
        LET RECURSIVE shift(_, _)
            shift(m, k) == IF k = 0 THEN m ELSE shift(m \div 256, k - 1)
        IN shift(n, i - 1) % 256]

RECURSIVE from_le_bytes(_)
from_le_bytes(buf) ==
    IF buf = <<>> THEN 0 ELSE Head(buf) + 256 * from_le_bytes(Tail(buf))

Value_new(w, index, inner) == [writer |-> w, index |-> index, inner |-> inner]

encode(v) == to_le_bytes(v.writer) \o to_le_bytes(v.index) \o v.inner

Value_from_payload_off_by_one(value) ==
    LET head == 2 * UsizeBytes IN
    IF Len(value) <= head
    THEN [panic |-> TRUE, v |-> Value_new(0, 0, <<>>)]
    ELSE [panic |-> FALSE,
          v |-> Value_new(from_le_bytes(SubSeq(value, 1, UsizeBytes)),
                          from_le_bytes(SubSeq(value, UsizeBytes + 1, head)),
                          SubSeq(value, head, Len(value)))]

\* impl From<&[u8]> for Value; "panic" stands for the too-small panic
Value_from(value) ==
    LET head == 2 * UsizeBytes IN
    IF Len(value) <= head
    THEN [panic |-> TRUE, v |-> Value_new(0, 0, <<>>)]
    ELSE [panic |-> FALSE,
          v |-> Value_new(from_le_bytes(SubSeq(value, 1, UsizeBytes)),
                          from_le_bytes(SubSeq(value, UsizeBytes + 1, head)),
                          SubSeq(value, head + 1, Len(value)))]

----------------------------------------------------------------------------
\* gen.rs

\* BYTES[v % 62] for the symbols the model uses: 'a' is 97, 'b' is 98
BYTES(i) == 97 + i

RangeLens(range) == range[1] .. range[2] - 1

RawSeqs(range) == UNION {[1 .. n -> RawBytes] : n \in RangeLens(range)}

\* what one next_op reads from the rng: the kind, then the raw key and value
DrawsOf(cfg) ==
    [kind : {0}, key : RawSeqs(cfg.key_range), value : RawSeqs(cfg.value_range)]
    \cup [kind : {1}, key : RawSeqs(cfg.key_range), value : {<<>>}]

Draws == DrawsOf(Cfg)

Generator_new(seed, w, cfg) == [seed |-> seed, writer |-> w, cfg |-> cfg, rng |-> 0]

Generator_reset_keeps_rng(gen) == gen

Generator_reset_skips_first(gen) == [gen EXCEPT !.rng = 1]

\* rng = SmallRng::seed_from_u64(seed): the stream restarts at its first draw
Generator_reset(gen) == [gen EXCEPT !.rng = 0]

next_bytes(raw) == [i \in 1 .. Len(raw) |-> BYTES(raw[i] % 62)]

next_key_one_byte_suffix(gen, raw) == next_bytes(raw) \o <<gen.writer % 256>>

next_key(gen, raw) == next_bytes(raw) \o to_le_bytes(gen.writer)

\* the operation drawn, and the generator after the draw
Generator_next_op(gen) ==
    LET d == tape[gen.seed][gen.rng + 1] IN
    [op |-> IF d.kind = 0
            THEN [kind |-> "Put", key |-> next_key(gen, d.key),
                  value |-> next_bytes(d.value)]
            ELSE [kind |-> "Delete", key |-> next_key(gen, d.key), value |-> <<>>],
     gen |-> [gen EXCEPT !.rng = @ + 1]]

NoOp == [kind |-> "None", key |-> <<>>, value |-> <<>>]

----------------------------------------------------------------------------
\* the collection (engula_client::Collection), atomic per call

NoValue == [some |-> FALSE, bytes |-> <<>>]

get(st, key) ==
    IF key \in DOMAIN st THEN [some |-> TRUE, bytes |-> st[key]] ELSE NoValue

put(st, key, bytes) ==
    [k \in DOMAIN st \cup {key} |-> IF k = key THEN bytes ELSE st[k]]

delete(st, key) == [k \in DOMAIN st \ {key} |-> st[k]]

EmptyMap == [k \in {} |-> <<>>]

\* the injected failure: the store call of the logical operation of `step`
\* of the chosen task fails on its first k attempts
NoFault == [task |-> "none", step |-> 0, k |-> 0]

StoreFails(task, step, attempts) ==
    /\ fault.task = task
    /\ fault.step = step
    /\ attempts < fault.k

\* failures injected per logical operation
FailCounts == {3, RetryBudget}

Exhausted_at_first_failure(n) == n >= 1

Exhausted_one_late(n) == n > RetryBudget

\* `for _ in 0..120`: the loop is left, to the panic, after this many attempts
Exhausted(n) == n >= RetryBudget

\* the cap on the unbounded step counter
StepCap == IF fault.task = "none" THEN MaxStep ELSE MaxFaultStep

----------------------------------------------------------------------------
\* base.rs: ExecCtx

MainChannel == <<"main">>

\* ExecCtx::new: a channel of its own
ExecCtx_new(id) == [channel |-> id]

\* ExecCtx::clone: a new receiver on the sender's channel
ExecCtx_clone(ctx) == [channel |-> ctx.channel]

\* None when the receiver of the context has a message, Some(()) on timeout
wait_until_timeout_or_shutdown(ctx) ==
    IF ctx.channel \in signalled THEN "None" ELSE "Some"

----------------------------------------------------------------------------
\* writer.rs

Writer_new(index, seed, cfg) ==
    [index |-> index,
     step |-> 0,
     gen |-> Generator_new(seed, index, cfg),
     ctx |-> ExecCtx_clone(ExecCtx_new(MainChannel)),
     pc |-> "next_op",
     op |-> NoOp,
     attempts |-> 0]

\* Writer::next_op: step.fetch_add(1), then the draw
Writer_next_op(wr) ==
    LET n == Generator_next_op(wr.gen) IN
    [wr EXCEPT !.step = @ + 1, !.gen = n.gen, !.op = n.op]

execute_with_previous_step(wr, op, st) ==
    LET step == wr.step - 1 IN
    IF op.kind = "Delete"
    THEN delete(st, op.key)
    ELSE put(st, op.key, encode(Value_new(wr.index, step, op.value)))

execute_skips_delete(wr, op, st) ==
    LET step == wr.step IN
    IF op.kind = "Delete"
    THEN st
    ELSE put(st, op.key, encode(Value_new(wr.index, step, op.value)))

\* Writer::execute, the store call having succeeded
execute(wr, op, st) ==
    LET step == wr.step IN
    IF op.kind = "Delete"
    THEN delete(st, op.key)
    ELSE put(st, op.key, encode(Value_new(wr.index, step, op.value)))

after_execute_continues_on_err(wr, ok) == [wr EXCEPT !.pc = "next_op"]

after_execute_counts_retry(wr, ok) ==
    IF ok THEN [wr EXCEPT !.pc = "next_op"]
    ELSE IF Exhausted(wr.attempts) THEN [wr EXCEPT !.pc = "panicked"]
    ELSE [wr EXCEPT !.step = @ + 1]

\* Writer::run, the match on the result of execute: Ok continues 'OUTER, Err
\* sleeps and takes the next turn of the for loop, which ends in the panic
after_execute(wr, ok) ==
    IF ok THEN [wr EXCEPT !.pc = "next_op"]
    ELSE IF Exhausted(wr.attempts) THEN [wr EXCEPT !.pc = "panicked"]
    ELSE wr

\* Writer::run, top of 'OUTER
WriterDraw(w) ==
    /\ fatal = "none"
    /\ writer[w].pc = "next_op"
    /\ writer[w].step < StepCap
    /\ writer' = [writer EXCEPT ![w] =
                    [Writer_next_op(@) EXCEPT !.pc = "execute", !.attempts = 0]]
    /\ UNCHANGED <<tape, reader, store, signalled, fatal, log_round, fault, codec, gens>>

\* Writer::run, one turn of the retry loop: execute, then continue 'OUTER,
\* or sleep and try again, or panic after the last attempt
WriterExecute(w) ==
    /\ fatal = "none"
    /\ writer[w].pc = "execute"
    /\ LET wr == writer[w]
           n == wr.attempts + 1
           ok == ~StoreFails("writer", wr.step, wr.attempts) IN
       /\ store' = IF ok THEN execute(wr, wr.op, store) ELSE store
       /\ writer' = [writer EXCEPT ![w] = after_execute([wr EXCEPT !.attempts = n], ok)]
       /\ fatal' = IF ~ok /\ Exhausted(n) THEN "could not execute op" ELSE fatal
    /\ UNCHANGED <<tape, reader, signalled, log_round, fault, codec, gens>>

----------------------------------------------------------------------------
\* reader.rs

Existed(value, step) == [kind |-> "Existed", value |-> value, step |-> step]
Deleted == [kind |-> "Deleted", value |-> <<>>, step |-> 0]

WriterTracker_new_wrong_identity(wr) ==
    [accessed_step |-> 0,
     gen |-> Generator_new(wr.gen.seed, wr.index + 1, wr.gen.cfg),
     writer |-> wr.index,
     expected |-> EmptyMap]

WriterTracker_new(wr) ==
    [accessed_step |-> 0,
     gen |-> Generator_new(wr.gen.seed, wr.index, wr.gen.cfg),
     writer |-> wr.index,
     expected |-> EmptyMap]

\* main: the writers reader idx traces, round-robin
RECURSIVE traced_writers(_, _)
traced_writers(writer_idx, readers) ==
    IF writer_idx < NumWriters
    THEN <<writer_idx>> \o traced_writers(writer_idx + readers, readers)
    ELSE <<>>

Reader_new(index, writers, ws) ==
    [index |-> index,
     trackers |-> [i \in 1 .. Len(writers) |-> WriterTracker_new(ws[writers[i]])],
     ctx |-> ExecCtx_new(<<"reader", index>>),
     pc |-> "wait",
     tracker_index |-> 0,
     next_op |-> NoOp,
     attempts |-> 0,
     got |-> NoValue]

WriterTracker_reset_keeps_rng(tr) ==
    [tr EXCEPT !.accessed_step = 0, !.expected = EmptyMap]

WriterTracker_reset(tr) ==
    [tr EXCEPT !.accessed_step = 0,
               !.gen = Generator_reset(@),
               !.expected = EmptyMap]

Remove(m, key) == [k \in DOMAIN m \ {key} |-> m[k]]
Insert(m, key, status) ==
    [k \in DOMAIN m \cup {key} |-> IF k = key THEN status ELSE m[k]]

advance_expect_status_any_step(tr, next_op) ==
    IF next_op.key \notin DOMAIN tr.expected
    THEN tr
    ELSE LET status == tr.expected[next_op.key] IN
         IF next_op.kind = "Delete"
         THEN IF status.kind = "Deleted"
              THEN [tr EXCEPT !.expected = Remove(@, next_op.key)]
              ELSE tr
         ELSE IF status.kind = "Existed"
              THEN [tr EXCEPT !.expected = Remove(@, next_op.key)]
              ELSE tr

\* CoreReader::advance_expect_status, on the tracker
advance_expect_status(tr, next_op) ==
    IF next_op.key \notin DOMAIN tr.expected
    THEN tr
    ELSE LET status == tr.expected[next_op.key] IN
         IF next_op.kind = "Delete"
         THEN IF status.kind = "Deleted"
              THEN [tr EXCEPT !.expected = Remove(@, next_op.key)]
              ELSE tr
         ELSE IF status.kind = "Existed" /\ status.step = tr.accessed_step
              THEN [tr EXCEPT !.expected = Remove(@, next_op.key)]
              ELSE tr

staled_without_window(v, tr) == v.index < tr.accessed_step

\* the staleness test of both branches of verify_next_op
staled(v, tr) == v.index + 1 < tr.accessed_step

put_expect_status_stored_value(next_op, v) == Existed(v.inner, v.index)

\* verify_next_op, Put, the else branch: Existed { value: value.clone(),
\* step: v.index() }, value being the operation's
put_expect_status(next_op, v) == Existed(next_op.value, v.index)

\* CoreReader::verify_next_op after the get returned `got`: the panic raised
\* ("none" when the call returns Ok) and the tracker it leaves
verify_next_op(tr0, next_op, got) ==
    LET tr == advance_expect_status(tr0, next_op)
        d == Value_from(got.bytes)
        v == d.v
    IN
    IF ~got.some
    THEN [panic |-> "none",
          tr |-> IF next_op.kind = "Delete"
                 THEN tr
                 ELSE [tr EXCEPT !.expected = Insert(@, next_op.key, Deleted)]]
    ELSE IF d.panic
    THEN [panic |-> "value len is too small", tr |-> tr]
    ELSE IF staled(v, tr)
    THEN [panic |-> "read a staled key", tr |-> tr]
    ELSE IF next_op.kind = "Delete"
    THEN [panic |-> "none",
          tr |-> [tr EXCEPT !.expected =
                     Insert(@, next_op.key, Existed(v.inner, v.index))]]
    ELSE IF v.index = tr.accessed_step
    THEN [panic |-> IF v.inner /= next_op.value THEN "different value" ELSE "none",
          tr |-> tr]
    ELSE [panic |-> "none",
          tr |-> [tr EXCEPT !.expected =
                     Insert(@, next_op.key, put_expect_status(next_op, v))]]

\* CoreReader::verify_and_reset_tracker
verify_and_reset_tracker(tr) ==
    IF DOMAIN tr.expected /= {}
    THEN [panic |-> "unresolved expect status", tr |-> tr]
    ELSE [panic |-> "none", tr |-> WriterTracker_reset(tr)]

\* Reader::run: after verify(tracker) returned, the next tracker of the
\* for loop, or the wait of the while loop
AfterVerify(rd) ==
    IF rd.tracker_index < Len(rd.trackers)
    THEN [rd EXCEPT !.tracker_index = @ + 1, !.pc = "verify"]
    ELSE [rd EXCEPT !.tracker_index = 0, !.pc = "wait"]

after_verify_err_moves_on(rd) ==
    IF Exhausted(rd.attempts) THEN [rd EXCEPT !.pc = "panicked"]
    ELSE AfterVerify(rd)

\* CoreReader::verify, the Err arm of the match on verify_next_op: sleep and
\* take the next turn of the for loop, which ends in the panic
after_verify_err(rd) ==
    IF Exhausted(rd.attempts) THEN [rd EXCEPT !.pc = "panicked"]
    ELSE rd

\* Reader::run: the condition of the while loop
ReaderWait(r) ==
    /\ fatal = "none"
    /\ reader[r].pc = "wait"
    /\ reader' = [reader EXCEPT ![r] =
                    IF wait_until_timeout_or_shutdown(@.ctx) = "None"
                    THEN [@ EXCEPT !.pc = "returned"]
                    ELSE AfterVerify(@)]
    /\ UNCHANGED <<tape, writer, store, signalled, fatal, log_round, fault, codec, gens>>

round_complete_one_late(tr, current_step) ==
    tr.accessed_step = current_step + 1

\* CoreReader::verify: the test that ends a round
round_complete(tr, current_step) == tr.accessed_step = current_step

\* CoreReader::verify up to the first store call
ReaderVerify(r) ==
    /\ fatal = "none"
    /\ reader[r].pc = "verify"
    /\ LET rd == reader[r]
           i == rd.tracker_index
           tr == rd.trackers[i]
           current_step == writer[tr.writer].step
       IN
       IF round_complete(tr, current_step)
       THEN LET res == verify_and_reset_tracker(tr) IN
            /\ log_round' = tr.accessed_step
            /\ fatal' = res.panic
            /\ reader' = [reader EXCEPT ![r] =
                             IF res.panic = "none"
                             THEN AfterVerify([rd EXCEPT !.trackers[i] = res.tr])
                             ELSE [rd EXCEPT !.pc = "panicked"]]
       ELSE LET n == Generator_next_op(tr.gen) IN
            /\ reader' = [reader EXCEPT ![r] =
                             [rd EXCEPT !.trackers[i].accessed_step = @ + 1,
                                        !.trackers[i].gen = n.gen,
                                        !.next_op = n.op,
                                        !.attempts = 0,
                                        !.pc = "verify_next_op"]]
            /\ UNCHANGED <<fatal, log_round>>
    /\ UNCHANGED <<tape, writer, store, signalled, fault, codec, gens>>

\* CoreReader::verify, one turn of the retry loop
ReaderVerifyNextOp(r) ==
    /\ fatal = "none"
    /\ reader[r].pc = "verify_next_op"
    /\ LET rd == reader[r]
           i == rd.tracker_index
           tr == rd.trackers[i]
           n == rd.attempts + 1
       IN
       IF StoreFails("reader", tr.accessed_step, rd.attempts)
       THEN /\ reader' = [reader EXCEPT ![r] =
                             after_verify_err(
                                 [rd EXCEPT !.trackers[i] =
                                                advance_expect_status(tr, rd.next_op),
                                            !.attempts = n])]
            /\ fatal' = IF Exhausted(n) THEN "could not verify op" ELSE fatal
       ELSE LET got == get(store, rd.next_op.key)
                res == verify_next_op(tr, rd.next_op, got)
                rd2 == [rd EXCEPT !.trackers[i] = res.tr,
                                  !.attempts = n,
                                  !.got = got]
            IN
            /\ fatal' = res.panic
            /\ reader' = [reader EXCEPT ![r] =
                             IF res.panic = "none" THEN AfterVerify(rd2)
                             ELSE [rd2 EXCEPT !.pc = "panicked"]]
    /\ UNCHANGED <<tape, writer, store, signalled, log_round, fault, codec, gens>>

----------------------------------------------------------------------------
\* main.rs

\* ExecCtx::drop on a context of main's channel: shutdown.0.send(())
SignalShutdown ==
    /\ fatal = "none"
    /\ MainChannel \notin signalled
    /\ signalled' = signalled \cup {MainChannel}
    /\ UNCHANGED <<tape, writer, reader, store, fatal, log_round, fault, codec, gens>>

Seeds == {b + w : b \in BaseSeeds, w \in Writers}

ReaderIds == {r \in Readers : r < NumWriters}

NoGens == [stage |-> "off", g |-> <<>>, prev |-> <<>>, out |-> <<>>]

NoCodec == [stage |-> "off", input |-> Value_new(0, 0, <<>>), bytes |-> <<>>,
            output |-> Value_from(<<>>)]

\* main after the spawn loops
InitTasks(base_seed) ==
    /\ writer = [w \in Writers |-> Writer_new(w, base_seed + w, Cfg)]
    /\ reader = [r \in ReaderIds |->
                    Reader_new(r, traced_writers(r, NumReaders), writer)]
    /\ store = EmptyMap
    /\ signalled = {}
    /\ fatal = "none"
    /\ log_round = 0
    /\ codec = NoCodec
    /\ gens = NoGens

Init ==
    /\ fault = NoFault
    /\ tape \in [Seeds -> [1 .. MaxStep -> Draws]]
    /\ \E b \in BaseSeeds : InitTasks(b)

\* the draws on one random key: every operation of the stream overwrites or
\* deletes what the one before it left
FaultDraws == {d \in Draws : \A i \in 1 .. Len(d.key) : d.key[i] = 0}

InitFault ==
    /\ fault \in [task : {"writer", "reader"}, step : 1 .. MaxFaultStep, k : FailCounts]
    /\ tape \in [Seeds -> [1 .. MaxFaultStep -> FaultDraws]]
    /\ \E b \in BaseSeeds : InitTasks(b)

Next ==
    \/ \E w \in Writers : WriterDraw(w)
    \/ \E w \in Writers : WriterExecute(w)
    \/ \E r \in ReaderIds : ReaderWait(r)
    \/ \E r \in ReaderIds : ReaderVerify(r)
    \/ \E r \in ReaderIds : ReaderVerifyNextOp(r)
    \/ SignalShutdown

Spec == Init /\ [][Next]_vars

\* the tokio runtime polls every spawned task that can make progress
Fairness ==
    /\ \A w \in Writers : WF_vars(WriterDraw(w) \/ WriterExecute(w))
    /\ \A r \in ReaderIds :
          WF_vars(ReaderWait(r) \/ ReaderVerify(r) \/ ReaderVerifyNextOp(r))

SpecLive == Init /\ [][Next]_vars /\ Fairness

SpecFault == InitFault /\ [][Next]_vars

----------------------------------------------------------------------------
\* the value codec on its own: a value is built, encoded, and decoded

CodecWriters == {0, 1, 258}
CodecSteps == {0, 1, 255, 256, 65537}
CodecPayloads == UNION {[1 .. n -> {97, 98}] : n \in 0 .. MaxPayload}

InitCodec ==
    /\ fault = NoFault
    /\ tape = [s \in Seeds |-> <<>>]
    /\ writer = <<>>
    /\ reader = <<>>
    /\ store = EmptyMap
    /\ signalled = {}
    /\ fatal = "none"
    /\ log_round = 0
    /\ gens = NoGens
    /\ \E w \in CodecWriters, index \in CodecSteps, inner \in CodecPayloads :
          codec = [NoCodec EXCEPT !.stage = "new", !.input = Value_new(w, index, inner)]

CodecEncode ==
    /\ codec.stage = "new"
    /\ codec' = [codec EXCEPT !.stage = "encoded", !.bytes = encode(codec.input)]
    /\ UNCHANGED <<tape, writer, reader, store, signalled, fatal, log_round, fault, gens>>

CodecDecode ==
    /\ codec.stage = "encoded"
    /\ codec' = [codec EXCEPT !.stage = "decoded", !.output = Value_from(codec.bytes)]
    /\ UNCHANGED <<tape, writer, reader, store, signalled, fatal, log_round, fault, gens>>

NextCodec == CodecEncode \/ CodecDecode

SpecCodec == InitCodec /\ [][NextCodec]_vars

----------------------------------------------------------------------------
\* the generator on its own: two generators of distinct writers on the same
\* rng stream draw operations and are reset

GenSeeds == {42}
GenIds == {0, 97, 256}
GenCfgs == {Cfg, [key_range |-> <<0, 2>>, value_range |-> <<1, 2>>]}
GenSlots == {"a", "b"}

InitGen ==
    /\ fault = NoFault
    /\ writer = <<>>
    /\ reader = <<>>
    /\ store = EmptyMap
    /\ signalled = {}
    /\ fatal = "none"
    /\ log_round = 0
    /\ codec = NoCodec
    /\ \E cfg \in GenCfgs, seed \in GenSeeds, ia \in GenIds, ib \in GenIds :
          /\ ia < ib
          /\ tape \in [GenSeeds -> [1 .. MaxDraws -> DrawsOf(cfg)]]
          /\ gens = [stage |-> "on",
                     g |-> [s \in GenSlots |->
                              Generator_new(seed, IF s = "a" THEN ia ELSE ib, cfg)],
                     prev |-> [s \in GenSlots |-> <<>>],
                     out |-> [s \in GenSlots |-> <<>>]]

\* one next_op of the generator in slot s
GenDraw(s) ==
    /\ gens.stage = "on"
    /\ Len(gens.out[s]) < MaxDraws
    /\ LET n == Generator_next_op(gens.g[s]) IN
       gens' = [gens EXCEPT !.g[s] = n.gen, !.out[s] = Append(@, n.op)]
    /\ UNCHANGED <<tape, writer, reader, store, signalled, fatal, log_round, fault, codec>>

\* one reset of the generator in slot s, after any number of draws
GenReset(s) ==
    /\ gens.stage = "on"
    /\ gens' = [gens EXCEPT !.g[s] = Generator_reset(@),
                            !.prev[s] = gens.out[s],
                            !.out[s] = <<>>]
    /\ UNCHANGED <<tape, writer, reader, store, signalled, fatal, log_round, fault, codec>>

NextGen ==
    \/ \E s \in GenSlots : GenDraw(s)
    \/ \E s \in GenSlots : GenReset(s)

SpecGen == InitGen /\ [][NextGen]_vars

----------------------------------------------------------------------------
\* Properties

TrackerIds(r) == 1 .. Len(reader[r].trackers)

\* the step is one of reader r's task
ReaderStep(r) == reader'[r] /= reader[r]

\* the step is one of writer w's task
WriterStep(w) == writer'[w] /= writer[w]

\* C1: with a store that never fails, no interleaving of a writer and the
\* reader that tracks it raises a staleness violation, a value mismatch or
\* an unresolved prediction
C1_Convergence ==
    fatal \notin {"read a staled key", "different value", "unresolved expect status"}

\* C2: a verify_next_op that finds the key present raises the staleness
\* violation exactly when stored.step + 1 < accessed_step, for Delete and Put
\* alike; one that finds the key absent raises none
C2_StalenessBound ==
    [][\A r \in ReaderIds :
         LET rd == reader[r]
             tr == rd.trackers[rd.tracker_index]
             got == get(store, rd.next_op.key)
             stored == Value_from(got.bytes).v
         IN
         (rd.pc = "verify_next_op" /\ ReaderStep(r)
            /\ ~StoreFails("reader", tr.accessed_step, rd.attempts))
         => ((fatal' = "read a staled key")
               <=> (got.some /\ stored.index + 1 < tr.accessed_step))]_vars

C2_PutWitness ==
    \E r \in ReaderIds :
        LET rd == reader[r]
            tr == rd.trackers[rd.tracker_index] IN
        /\ fatal = "read a staled key"
        /\ rd.next_op.kind = "Put"
        /\ rd.got.some
        /\ Value_from(rd.got.bytes).v.index + 1 < tr.accessed_step

C2_Witness ==
    \E r \in ReaderIds :
        LET rd == reader[r]
            tr == rd.trackers[rd.tracker_index] IN
        /\ fatal = "read a staled key"
        /\ rd.next_op.kind = "Delete"
        /\ rd.got.some
        /\ Value_from(rd.got.bytes).v.index + 1 < tr.accessed_step

\* verify finds tracker i of reader r at the writer's published step
Boundary(r, i) ==
    /\ reader[r].pc = "verify"
    /\ reader[r].tracker_index = i
    /\ reader[r].trackers[i].accessed_step = writer[reader[r].trackers[i].writer].step

\* C3: at the round boundary a non-empty prediction map is fatal and leaves
\* the tracker as it is, an empty one resets the tracker (accessed_step 0,
\* generator at draw count 0, empty map); accessed_step returns to 0 by no
\* other transition
C3_RoundBoundary ==
    [][\A r \in ReaderIds : \A i \in TrackerIds(r) :
         LET tr == reader[r].trackers[i]
             tr2 == reader'[r].trackers[i] IN
         /\ (Boundary(r, i) /\ ReaderStep(r)) =>
               IF DOMAIN tr.expected /= {}
               THEN fatal' = "unresolved expect status" /\ tr2 = tr
               ELSE /\ fatal' = "none"
                    /\ tr2.accessed_step = 0
                    /\ tr2.gen.rng = 0
                    /\ tr2.expected = EmptyMap
         /\ (tr.accessed_step /= 0 /\ tr2.accessed_step = 0) =>
               (Boundary(r, i) /\ DOMAIN tr.expected = {})]_vars

C3_Witness ==
    \E r \in ReaderIds : \E i \in TrackerIds(r) :
        /\ fatal = "none"
        /\ log_round > 0
        /\ reader[r].trackers[i].accessed_step = 0
        /\ reader[r].trackers[i].gen.rng = 0
        /\ writer[reader[r].trackers[i].writer].step = log_round

\* C4 as stated: decoding the encoding of any value, the empty payload
\* included, succeeds and returns the value
C4_RoundTripAnyPayload ==
    codec.stage = "decoded" =>
        (~codec.output.panic /\ codec.output.v = codec.input)

\* C4: decoding the encoding of a value with a payload of one byte or more
\* succeeds and returns the writer, the step and the payload; the encoding
\* of an empty payload is 16 bytes long, and decoding it fails
C4_RoundTrip ==
    codec.stage = "decoded" =>
        IF codec.input.inner /= <<>>
        THEN ~codec.output.panic /\ codec.output.v = codec.input
        ELSE Len(codec.bytes) = 2 * UsizeBytes /\ codec.output.panic

C4_Witness ==
    /\ codec.stage = "decoded"
    /\ Len(codec.input.inner) = MaxPayload
    /\ codec.input.index > 255
    /\ codec.input.writer > 255
    /\ ~codec.output.panic

\* the failures injected into the store call of the operation of `step`
FailuresOf(task, step) ==
    IF fault.task = task /\ fault.step = step THEN fault.k ELSE 0

RetryPanics == {"could not execute op", "could not verify op"}

C5_ReaderWitness ==
    \E r \in ReaderIds :
        /\ fault.task = "reader"
        /\ fault.k = 3
        /\ fatal = "none"
        /\ reader[r].pc = "wait"
        /\ reader[r].attempts = 4
        /\ reader[r].trackers[1].accessed_step = fault.step

C6_ReaderWitness ==
    /\ fault.k = RetryBudget
    /\ fault.task = "reader"
    /\ fatal = "could not verify op"
    /\ \E r \in ReaderIds : reader[r].attempts = RetryBudget

\* every task has left its run loop, or the process has exited
WritersStopped == fatal /= "none" \/ \A w \in Writers : writer[w].pc = "returned"
ReadersStopped == fatal /= "none" \/ \A r \in ReaderIds : reader[r].pc = "returned"

\* C7: once the shutdown signal of the context given to Writer::run has
\* fired, the writer eventually leaves its run loop
C7_WriterCancellation ==
    (\E w \in Writers : writer[w].ctx.channel \in signalled) ~> WritersStopped

\* C8: once shutdown is signalled on the context created in main, every
\* reader eventually leaves its run loop
C8_ReaderCancellation ==
    (MainChannel \in signalled) ~> ReadersStopped

\* writer_from_key of gen.rs
writer_from_key(key) == from_le_bytes(SubSeq(key, Len(key) - 7, Len(key)))

\* the n-th operation of writer w's stream
OpAt(w, n) == Generator_next_op([writer[w].gen EXCEPT !.rng = n - 1]).op

\* the store after the operations 1 .. n of writer w, in step order
RECURSIVE Replay(_, _)
Replay(w, n) ==
    IF n = 0 THEN EmptyMap
    ELSE LET st == Replay(w, n - 1)
             op == OpAt(w, n) IN
         IF op.kind = "Delete" THEN delete(st, op.key)
         ELSE put(st, op.key, encode(Value_new(w, n, op.value)))

KeysOf(w, st) == {k \in DOMAIN st : writer_from_key(k) = w}

\* C9: the store holds, for each writer, the effect of its operations
\* 1 .. step - 1 in step order while the operation of `step` is in flight,
\* and of 1 .. step once that operation has succeeded and before the next
\* is drawn
C9_WriterOrdering ==
    \A w \in Writers :
        LET applied == IF writer[w].pc = "next_op"
                       THEN writer[w].step ELSE writer[w].step - 1 IN
        /\ writer[w].step >= 0
        /\ writer[w].pc = "next_op" \/ writer[w].step >= 1
        /\ [k \in KeysOf(w, store) |-> store[k]] = Replay(w, applied)

C9_Witness ==
    \E w \in Writers :
        /\ fault.task = "writer"
        /\ fault.step = 1
        /\ writer[w].step = MaxFaultStep
        /\ writer[w].pc = "execute"
        /\ DOMAIN store /= {}

\* C10: a value in the store under a key of writer w decodes to writer w,
\* a step s that w has drawn, and the payload of the Put that w's stream
\* yields at step s for that key
C10_Provenance ==
    \A key \in DOMAIN store :
        LET d == Value_from(store[key])
            w == writer_from_key(key) IN
        /\ w \in Writers
        /\ ~d.panic
        /\ d.v.writer = w
        /\ d.v.index \in 1 .. writer[w].step
        /\ OpAt(w, d.v.index) = [kind |-> "Put", key |-> key, value |-> d.v.inner]

C10_Witness ==
    \E key \in DOMAIN store :
        /\ fault.task = "writer"
        /\ fault.k = 3
        /\ Value_from(store[key]).v.index = fault.step
        /\ fault.step = MaxFaultStep

\* the keys the generator in slot s has produced
KeysDrawn(s) ==
    {gens.prev[s][i].key : i \in 1 .. Len(gens.prev[s])}
        \cup {gens.out[s][i].key : i \in 1 .. Len(gens.out[s])}

\* C11: the generators of two distinct writers produce no key in common,
\* whatever the seed, the config and the number of draws: every key ends
\* with the 8 little-endian bytes of its writer's identity
C11_KeyPartition ==
    gens.stage = "on" =>
        /\ gens.g["a"].writer /= gens.g["b"].writer
        /\ KeysDrawn("a") \cap KeysDrawn("b") = {}
        /\ \A s \in GenSlots : \A key \in KeysDrawn(s) :
              /\ Len(key) >= 8
              /\ SubSeq(key, Len(key) - 7, Len(key)) = to_le_bytes(gens.g[s].writer)

C11_Witness ==
    /\ gens.stage = "on"
    /\ gens.g["a"].writer = 0
    /\ gens.g["b"].writer = 256
    /\ Len(gens.out["a"]) = MaxDraws
    /\ Len(gens.out["b"]) = MaxDraws
    /\ \E i, j \in 1 .. MaxDraws :
          /\ Len(gens.out["a"][i].key) = Len(gens.out["b"][j].key)
          /\ SubSeq(gens.out["a"][i].key, 1, Len(gens.out["a"][i].key) - 8)
               = SubSeq(gens.out["b"][j].key, 1, Len(gens.out["b"][j].key) - 8)

\* C12: the operations a generator draws after a reset are, one by one,
\* the operations it drew before the reset, whatever the number of draws
\* before the reset
C12_Determinism ==
    gens.stage = "on" =>
        \A s \in GenSlots :
            \A i \in 1 .. Len(gens.out[s]) :
                i <= Len(gens.prev[s]) => gens.out[s][i] = gens.prev[s][i]

C12_Witness ==
    /\ gens.stage = "on"
    /\ Len(gens.prev["a"]) = MaxDraws
    /\ Len(gens.out["a"]) = MaxDraws
    /\ gens.out["a"][1] /= gens.out["a"][MaxDraws]
    /\ Len(gens.prev["b"]) = 1

\* C13: a writer's published step starts at 0, changes only when the
\* writer draws an operation, and then by exactly one; no attempt of execute,
\* failed or not, changes it, so what a reader reads never decreases
C13_MonotonicStep ==
    /\ \A w \in DOMAIN writer : writer[w].step = 0
    /\ [][\A w \in DOMAIN writer :
            /\ writer'[w].step >= writer[w].step
            /\ writer'[w].step /= writer[w].step =>
                  /\ writer[w].pc = "next_op"
                  /\ writer'[w].step = writer[w].step + 1
                  /\ writer'[w].gen.rng = writer[w].gen.rng + 1
                  /\ writer'[w].op = OpAt(w, writer'[w].step)
            /\ writer'[w].gen /= writer[w].gen =>
                  writer'[w].step = writer[w].step + 1
            /\ writer[w].pc = "execute" => writer'[w].step = writer[w].step]_vars

C13_Witness ==
    \E w \in DOMAIN writer :
        /\ fault.task = "writer"
        /\ writer[w].step = 2
        /\ writer[w].pc = "execute"
        /\ writer[w].attempts >= 2
        /\ \E r \in DOMAIN reader : reader[r].trackers[1].accessed_step = 1

RoundCompleted(w) ==
    /\ log_round >= 1
    /\ writer[w].step = log_round
    /\ writer[w].pc = "next_op"

\* C15 as stated: after a round has completed, the writer replays too: its
\* next draw is the first operation of the sequence, at step 1
C15_WriterRestarts ==
    [][\A w \in DOMAIN writer :
          (RoundCompleted(w) /\ WriterStep(w)) =>
              /\ writer'[w].step = 1
              /\ writer'[w].op = OpAt(w, 1)]_vars

\* C15: when a round of N operations completes, the tracker alone starts
\* over (accessed_step 0, replica rewound, so its next operation is the first
\* of the sequence); the writer's step and generator are left as they are,
\* and the writer's next draw is operation N + 1 at step N + 1
C15_RoundReplay ==
    [][/\ \A r \in DOMAIN reader : \A i \in TrackerIds(r) :
             LET tr == reader[r].trackers[i]
                 tr2 == reader'[r].trackers[i]
             IN
             /\ (Boundary(r, i) /\ ReaderStep(r) /\ fatal' = "none") =>
                   /\ tr2.accessed_step = 0
                   /\ tr2.gen.rng = 0
                   /\ writer' = writer
             /\ (tr.accessed_step = 0 /\ tr2.accessed_step /= 0) =>
                   /\ tr2.accessed_step = 1
                   /\ reader'[r].next_op = OpAt(tr.writer, 1)
       /\ \A w \in DOMAIN writer :
             (RoundCompleted(w) /\ WriterStep(w)) =>
                 /\ writer'[w].step = log_round + 1
                 /\ writer'[w].gen.rng = log_round + 1
                 /\ writer'[w].op = OpAt(w, log_round + 1)]_vars

C15_Witness ==
    \E r \in DOMAIN reader : \E i \in TrackerIds(r) :
        LET tr == reader[r].trackers[i] IN
        /\ log_round >= 1
        /\ writer[tr.writer].step = log_round + 1
        /\ reader[r].pc = "verify_next_op"
        /\ reader[r].tracker_index = i
        /\ tr.accessed_step = 1
        /\ reader[r].next_op /= writer[tr.writer].op

\* reader r takes a turn of the retry loop in which the store call succeeds
ReadsStore(r) ==
    /\ reader[r].pc = "verify_next_op"
    /\ ReaderStep(r)
    /\ ~StoreFails("reader",
                   reader[r].trackers[reader[r].tracker_index].accessed_step,
                   reader[r].attempts)

\* C16 as stated: a Put that finds the key with a stored step greater than
\* accessed_step ends the reader fatally and records no prediction
C16_NewerStepFatal ==
    [][\A r \in DOMAIN reader :
          LET rd == reader[r]
              i == rd.tracker_index
              tr == rd.trackers[i]
              got == get(store, rd.next_op.key)
              stored == Value_from(got.bytes).v
          IN
          (ReadsStore(r) /\ rd.next_op.kind = "Put" /\ got.some
              /\ stored.index > tr.accessed_step)
          => /\ fatal' /= "none"
             /\ reader'[r].trackers[i].expected
                  = advance_expect_status(tr, rd.next_op).expected]_vars

\* C16: a Put that finds the key with a stored step greater than
\* accessed_step raises nothing: verify_next_op succeeds and records for the
\* key the prediction Existed with the generated value and the stored step
C16_NewerStepPrediction ==
    [][\A r \in DOMAIN reader :
          LET rd == reader[r]
              i == rd.tracker_index
              tr == rd.trackers[i]
              got == get(store, rd.next_op.key)
              stored == Value_from(got.bytes).v
          IN
          (ReadsStore(r) /\ rd.next_op.kind = "Put" /\ got.some
              /\ stored.index > tr.accessed_step)
          => /\ fatal' = "none"
             /\ reader'[r].pc \in {"verify", "wait"}
             /\ reader'[r].trackers[i].accessed_step = tr.accessed_step
             /\ reader'[r].trackers[i].expected
                  = Insert(advance_expect_status(tr, rd.next_op).expected,
                           rd.next_op.key,
                           Existed(rd.next_op.value, stored.index))]_vars

C16_Witness ==
    \E r \in DOMAIN reader : \E i \in TrackerIds(r) :
        LET rd == reader[r]
            tr == rd.trackers[i]
            stored == Value_from(rd.got.bytes).v
        IN
        /\ fatal = "none"
        /\ rd.pc \in {"verify", "wait"}
        /\ rd.attempts >= 1
        /\ rd.next_op.kind = "Put"
        /\ rd.got.some
        /\ stored.index > tr.accessed_step
        /\ stored.inner /= rd.next_op.value
        /\ rd.next_op.key \in DOMAIN tr.expected
        /\ tr.expected[rd.next_op.key] = Existed(rd.next_op.value, stored.index)

\* C17: a Put that finds its key absent records a prediction for the key,
\* and when the next operation is on the same key and its verification reads
\* the value of that Put, the key is left without a prediction
C17_AbsentPutResolved ==
    [][\A r \in DOMAIN reader :
          LET rd == reader[r]
              i == rd.tracker_index
              tr == rd.trackers[i]
              key == rd.next_op.key
              got == get(store, key)
              stored == Value_from(got.bytes).v
              earlier == OpAt(tr.writer, tr.accessed_step - 1)
          IN
          /\ (ReadsStore(r) /\ rd.next_op.kind = "Put" /\ ~got.some) =>
                key \in DOMAIN reader'[r].trackers[i].expected
          /\ (/\ ReadsStore(r)
              /\ tr.accessed_step >= 2
              /\ earlier.kind = "Put"
              /\ earlier.key = key
              /\ ~rd.got.some
              /\ key \in DOMAIN tr.expected
              /\ tr.expected[key] = Deleted
              /\ got.some
              /\ stored.index = tr.accessed_step - 1
              /\ stored.inner = earlier.value) =>
                key \notin DOMAIN reader'[r].trackers[i].expected]_vars

\* C18: a Put that finds the key with a stored step equal to accessed_step is
\* fatal when the stored payload differs from the generated value, and
\* otherwise succeeds and leaves the key without a prediction
C18_MatchingStep ==
    [][\A r \in DOMAIN reader :
          LET rd == reader[r]
              i == rd.tracker_index
              tr == rd.trackers[i]
              got == get(store, rd.next_op.key)
              stored == Value_from(got.bytes).v
          IN
          (ReadsStore(r) /\ rd.next_op.kind = "Put" /\ got.some
              /\ stored.index = tr.accessed_step)
          => IF stored.inner /= rd.next_op.value
             THEN fatal' = "different value"
             ELSE /\ fatal' = "none"
                  /\ reader'[r].pc \in {"verify", "wait"}
                  /\ rd.next_op.key \notin DOMAIN reader'[r].trackers[i].expected]_vars

\* the confirmation step removes the prediction of the operation's key
Confirmed(tr, next_op) ==
    /\ next_op.key \in DOMAIN tr.expected
    /\ \/ /\ tr.expected[next_op.key].kind = "Deleted"
          /\ next_op.kind = "Delete"
       \/ /\ tr.expected[next_op.key].kind = "Existed"
          /\ tr.expected[next_op.key].step = tr.accessed_step
          /\ next_op.kind = "Put"

\* C19: at the start of verify_next_op the prediction of the operation's key
\* is removed exactly when it is Deleted and the operation a Delete, or
\* Existed with the step accessed_step and the operation a Put; otherwise it
\* stays, and the predictions of all other keys stay in both cases
C19_Confirmation ==
    \A r \in DOMAIN reader :
        reader[r].pc = "verify_next_op" =>
            LET tr == reader[r].trackers[reader[r].tracker_index]
                next_op == reader[r].next_op
                after == advance_expect_status(tr, next_op)
            IN
            /\ DOMAIN after.expected =
                   IF Confirmed(tr, next_op)
                   THEN DOMAIN tr.expected \ {next_op.key}
                   ELSE DOMAIN tr.expected
            /\ \A k \in DOMAIN after.expected : after.expected[k] = tr.expected[k]
            /\ after.accessed_step = tr.accessed_step
            /\ after.gen = tr.gen

C19_Witness ==
    \E r \in DOMAIN reader :
        /\ fatal = "none"
        /\ reader[r].pc = "verify_next_op"
        /\ LET tr == reader[r].trackers[reader[r].tracker_index]
               next_op == reader[r].next_op
           IN
           /\ Confirmed(tr, next_op)
           /\ next_op.kind = "Delete"
           /\ DOMAIN tr.expected \ {next_op.key} /= {}

\* C20: a verify that finds the tracker behind adds one to accessed_step and
\* draws one operation; every turn of the retry loop keeps accessed_step, the
\* generator and the operation; the reader leaves the retry loop for the next
\* verify only on a turn whose store call succeeded
C20_SequentialVerification ==
    [][\A r \in DOMAIN reader :
          LET rd == reader[r]
              i == rd.tracker_index
              tr == rd.trackers[i]
              tr2 == reader'[r].trackers[i]
          IN
          /\ (rd.pc = "verify" /\ ReaderStep(r)
                /\ tr.accessed_step /= writer[tr.writer].step) =>
                /\ tr2.accessed_step = tr.accessed_step + 1
                /\ tr2.gen.rng = tr.gen.rng + 1
                /\ reader'[r].next_op = OpAt(tr.writer, tr2.accessed_step)
                /\ reader'[r].pc = "verify_next_op"
                /\ reader'[r].attempts = 0
          /\ (rd.pc = "verify_next_op" /\ ReaderStep(r)) =>
                /\ tr2.accessed_step = tr.accessed_step
                /\ tr2.gen = tr.gen
                /\ reader'[r].next_op = rd.next_op
                /\ reader'[r].attempts = rd.attempts + 1
                /\ reader'[r].pc \in {"verify", "wait"} =>
                      /\ ~StoreFails("reader", tr.accessed_step, rd.attempts)
                      /\ fatal' = "none"
          /\ \A j \in TrackerIds(r) :
                reader'[r].trackers[j].accessed_step > rd.trackers[j].accessed_step
                    => (rd.pc = "verify" /\ j = i)]_vars

C20_Witness ==
    \E r \in DOMAIN reader : \E i \in TrackerIds(r) :
        /\ fatal = "none"
        /\ fault.task = "reader"
        /\ fault.step = 2
        /\ reader[r].trackers[i].accessed_step = 2
        /\ reader[r].pc \in {"verify", "wait"}
        /\ reader[r].attempts = fault.k + 1
        /\ fault.k >= 3

\* C21: no tracker is ever ahead of its writer's published step, and every
\* time verify takes the branch that is not the round boundary the tracker
\* is strictly behind the step it has just read
C21_NeverAhead ==
    /\ [](\A r \in DOMAIN reader : \A i \in TrackerIds(r) :
             reader[r].trackers[i].accessed_step
                 <= writer[reader[r].trackers[i].writer].step)
    /\ [][\A r \in DOMAIN reader :
             LET rd == reader[r]
                 tr == rd.trackers[rd.tracker_index]
                 current_step == writer[tr.writer].step
             IN
             (rd.pc = "verify" /\ ReaderStep(r)
                 /\ reader'[r].pc = "verify_next_op")
             => /\ tr.accessed_step < current_step
                /\ reader'[r].trackers[rd.tracker_index].accessed_step
                     <= current_step]_vars

C21_Witness ==
    \E r \in DOMAIN reader : \E i \in TrackerIds(r) :
        /\ log_round >= 1
        /\ reader[r].pc = "verify_next_op"
        /\ reader[r].tracker_index = i
        /\ reader[r].trackers[i].accessed_step = 2
        /\ writer[reader[r].trackers[i].writer].step = 2
        /\ writer[reader[r].trackers[i].writer].pc = "execute"

\* C22: a verify_next_op that reads the store while its tracker is strictly
\* behind the writer's published step raises nothing, finds at a matching
\* step the generated value, and records only predictions of what comes
\* later in the sequence: Existed with the step of a later Put of the key,
\* which is the stored step, or Deleted when a later Delete of the key exists
C22_NoFalseAlarmBehind ==
    [][\A r \in DOMAIN reader :
          LET rd == reader[r]
              i == rd.tracker_index
              tr == rd.trackers[i]
              w == tr.writer
              next_op == rd.next_op
              key == next_op.key
              got == get(store, key)
              stored == Value_from(got.bytes).v
              expected2 == reader'[r].trackers[i].expected
          IN
          (ReadsStore(r) /\ tr.accessed_step < writer[w].step) =>
             /\ fatal' = "none"
             /\ (got.some /\ next_op.kind = "Put"
                    /\ stored.index = tr.accessed_step) =>
                   stored.inner = next_op.value
             /\ (got.some /\ ~(next_op.kind = "Put"
                                  /\ stored.index = tr.accessed_step)) =>
                   /\ key \in DOMAIN expected2
                   /\ expected2[key].kind = "Existed"
                   /\ expected2[key].step = stored.index
                   /\ stored.index > tr.accessed_step
                   /\ stored.index <= writer[w].step
                   /\ OpAt(w, stored.index).kind = "Put"
                   /\ OpAt(w, stored.index).key = key
             /\ (~got.some /\ next_op.kind = "Put") =>
                   /\ key \in DOMAIN expected2
                   /\ expected2[key] = Deleted
                   /\ \E d \in (tr.accessed_step + 1) .. writer[w].step :
                         /\ OpAt(w, d).kind = "Delete"
                         /\ OpAt(w, d).key = key
             /\ (~got.some /\ next_op.kind = "Delete") =>
                   expected2 = advance_expect_status(tr, next_op).expected]_vars

C22_Witness ==
    \E r \in DOMAIN reader : \E i \in TrackerIds(r) :
        LET rd == reader[r]
            tr == rd.trackers[i]
        IN
        /\ fatal = "none"
        /\ log_round >= 2
        /\ tr.accessed_step = 1
        /\ rd.pc \in {"verify", "wait"}
        /\ rd.attempts >= 1
        /\ rd.next_op.kind = "Put"
        /\ ~rd.got.some
        /\ rd.next_op.key \in DOMAIN tr.expected
        /\ tr.expected[rd.next_op.key] = Deleted

====
